---- MODULE Spec2Model ----
(***************************************************************************)
(* A model of the regular-expression parser of src/src/regexp.rs: the Re   *)
(* tree, the recursive-descent functions parse_or / parse_and /            *)
(* parse_postfix / parse_atom, parse_number, first_non_ascii, the entry    *)
(* point Re::parse_regexp, Re::is_equal and Re::debug_print.               *)
(*                                                                         *)
(* Bytes are the integers 0..255, a string is a sequence of bytes that is  *)
(* indexed from 1 here and from 0 in the source: At(string, i) reads the   *)
(* byte the source calls string[i].                                        *)
(***************************************************************************)
EXTENDS Integers, Sequences, FiniteSets, TLC

VARIABLES
    string,    \* the bytes handed to the function that was called
    index,     \* the cursor handed to it (0 for the functions that take none)
    call,      \* the function that was called last, "none" before any call
    result,    \* what that call returned
    stdout,    \* the texts written by the calls of debug_print, oldest first
    self,      \* is_equal's receiver
    other,     \* is_equal's argument
    stack,     \* the call stack of the parser run step by step, innermost frame last
    ret,       \* the value the last finished frame returned
    depth      \* the deepest the call stack has been in this run

vars == <<string, index, call, result, stdout, self, other, stack, ret, depth>>

(***************************************************************************)
(* Bytes the source names as character literals.                           *)
(***************************************************************************)
CH_LPAREN == 40
CH_RPAREN == 41
CH_STAR == 42
CH_PLUS == 43
CH_COMMA == 44
CH_DOT == 46
CH_0 == 48
CH_9 == 57
CH_UPPER_A == 65
CH_UPPER_Z == 90
CH_a == 97
CH_z == 122
CH_LBRACE == 123
CH_PIPE == 124
CH_RBRACE == 125
\* u8::is_ascii: the bytes below ASCII_LIMIT
ASCII_LIMIT == 128

\* string[i] of the source (0-based)
At(s, i) == s[i + 1]

is_ascii(b) == b < ASCII_LIMIT

is_ascii_digit(b) == b >= CH_0 /\ b <= CH_9

(***************************************************************************)
(* enum Re                                                                 *)
(***************************************************************************)
Char(c) == [tag |-> "Char", c |-> c]

Or(c1, c2) == [tag |-> "Or", c1 |-> c1, c2 |-> c2]

And(c1, c2) == [tag |-> "And", c1 |-> c1, c2 |-> c2]

Kleen(c) == [tag |-> "Kleen", c1 |-> c]

OneOrMore(c) == [tag |-> "OneOrMore", c1 |-> c]

Repeat(c, a, b) == [tag |-> "Repeat", c1 |-> c, a |-> a, b |-> b]

AnyChar == [tag |-> "AnyChar"]

(***************************************************************************)
(* Result<(Re, usize), ReError> and Option<(usize, usize)>.  An error      *)
(* keeps its kind and ReErrorInfo.at; the message is not modelled.         *)
(***************************************************************************)
Ok(reg, idx) == [ok |-> TRUE, reg |-> reg, idx |-> idx]

Err(kind, at) == [ok |-> FALSE, kind |-> kind, at |-> at]

Some(integer, idx) == [some |-> TRUE, integer |-> integer, idx |-> idx]

\* Option<usize>, the Some of first_non_ascii
SomeIndex(i) == [some |-> TRUE, index |-> i]

None == [some |-> FALSE]

(***************************************************************************)
(* first_non_ascii: the loop over 0..string.len(), returning at the first  *)
(* byte that is not ASCII.                                                 *)
(***************************************************************************)
RECURSIVE first_non_ascii_from(_, _)
first_non_ascii_from(s, i) ==
    IF i >= Len(s) THEN None
    ELSE IF ~is_ascii(At(s, i)) THEN SomeIndex(i)
    ELSE first_non_ascii_from(s, i + 1)

first_non_ascii(s) == first_non_ascii_from(s, 0)

(***************************************************************************)
(* parse_number: the while loop collects the digits from index on, then    *)
(* str::parse::<usize> turns them into a number: it fails on the empty     *)
(* string and on a value that does not fit usize.                          *)
(***************************************************************************)
\* mutant of digits_end: an if in place of the while, so at most one digit is read
digits_end_one_digit(s, current_index) ==
    IF current_index < Len(s) /\ is_ascii_digit(At(s, current_index))
    THEN current_index + 1
    ELSE current_index

RECURSIVE digits_end(_, _)
digits_end(s, current_index) ==
    IF current_index < Len(s) /\ is_ascii_digit(At(s, current_index))
    THEN digits_end(s, current_index + 1)
    ELSE current_index

\* the digits of usize::MAX on a 64-bit target, 18446744073709551615
USIZE_MAX_DIGITS == <<1, 8, 4, 4, 6, 7, 4, 4, 0, 7, 3, 7, 0, 9, 5, 5, 1, 6, 1, 5>>

RECURSIVE strip_zeros(_)
strip_zeros(ds) ==
    IF ds # <<>> /\ Head(ds) = 0 THEN strip_zeros(Tail(ds)) ELSE ds

RECURSIVE digits_leq(_, _)
digits_leq(ds, es) ==
    IF ds = <<>> THEN TRUE
    ELSE IF Head(ds) # Head(es) THEN Head(ds) < Head(es)
    ELSE digits_leq(Tail(ds), Tail(es))

fits_usize(ds) ==
    LET sig == strip_zeros(ds) IN
    \/ Len(sig) < Len(USIZE_MAX_DIGITS)
    \/ Len(sig) = Len(USIZE_MAX_DIGITS) /\ digits_leq(sig, USIZE_MAX_DIGITS)

RECURSIVE digits_value(_, _)
digits_value(ds, acc) ==
    IF ds = <<>> THEN acc ELSE digits_value(Tail(ds), acc * 10 + Head(ds))

\* current_string.parse::<usize>(), on the digits d - '0' of current_string
parse_usize(ds) ==
    IF ds = <<>> \/ ~fits_usize(ds) THEN None
    ELSE Some(digits_value(ds, 0), 0)

parse_number(s, idx) ==
    LET current_index == digits_end(s, idx)
        current_string == [k \in 1..(current_index - idx) |-> At(s, idx + k - 1) - CH_0]
        parsed == parse_usize(current_string)
    IN  IF parsed.some THEN Some(parsed.integer, current_index) ELSE None

(***************************************************************************)
(* The recursive-descent functions.                                        *)
(***************************************************************************)
RECURSIVE parse_or(_, _), parse_and(_, _), parse_postfix(_, _), parse_atom(_, _)

\* mutant of parse_atom: the upper ends of the three ranges are left out
parse_atom_open_ranges(s, idx) ==
    IF idx >= Len(s) THEN Err("OutOfRange", idx)
    ELSE IF \/ At(s, idx) >= CH_a /\ At(s, idx) < CH_z
            \/ At(s, idx) >= CH_UPPER_A /\ At(s, idx) < CH_UPPER_Z
            \/ At(s, idx) >= CH_0 /\ At(s, idx) < CH_9
         THEN Ok(Char(At(s, idx)), idx + 1)
    ELSE IF At(s, idx) = CH_DOT THEN Ok(AnyChar, idx + 1)
    ELSE IF At(s, idx) = CH_LPAREN THEN parse_or(s, idx + 1)
    ELSE Err("InvalidChar", idx)

parse_atom(s, idx) ==
    IF idx >= Len(s) THEN Err("OutOfRange", idx)
    ELSE IF \/ At(s, idx) >= CH_a /\ At(s, idx) <= CH_z
            \/ At(s, idx) >= CH_UPPER_A /\ At(s, idx) <= CH_UPPER_Z
            \/ At(s, idx) >= CH_0 /\ At(s, idx) <= CH_9
         THEN Ok(Char(At(s, idx)), idx + 1)
    ELSE IF At(s, idx) = CH_DOT THEN Ok(AnyChar, idx + 1)
    ELSE IF At(s, idx) = CH_LPAREN THEN parse_or(s, idx + 1)
    ELSE Err("InvalidChar", idx)

\* mutant of repeat_after_right: the range is not checked
repeat_after_right_no_range(s, reg, after_atom_id, left, right) ==
    IF ~right.some THEN Err("InvalidInt", left.idx)
    ELSE IF right.idx >= Len(s) \/ At(s, right.idx) # CH_RBRACE
         THEN Err("InvalidChar", left.idx)
    ELSE Ok(Repeat(reg, left.integer, right.integer), right.idx + 1)

\* mutant of repeat_after_right: the '}' is looked for before the range is checked
repeat_after_right_brace_first(s, reg, after_atom_id, left, right) ==
    IF ~right.some THEN Err("InvalidInt", left.idx)
    ELSE IF right.idx >= Len(s) \/ At(s, right.idx) # CH_RBRACE
         THEN Err("InvalidChar", left.idx)
    ELSE IF left.integer > right.integer THEN Err("InvalidRange", after_atom_id)
    ELSE Ok(Repeat(reg, left.integer, right.integer), right.idx + 1)

\* the '{' branch of parse_postfix, after the atom reg that ends at after_atom_id
repeat_after_right(s, reg, after_atom_id, left, right) ==
    IF ~right.some THEN Err("InvalidInt", left.idx)
    ELSE IF left.integer > right.integer THEN Err("InvalidRange", after_atom_id)
    ELSE IF right.idx >= Len(s) \/ At(s, right.idx) # CH_RBRACE
         THEN Err("InvalidChar", left.idx)
    ELSE Ok(Repeat(reg, left.integer, right.integer), right.idx + 1)

repeat_after_left(s, reg, after_atom_id, left) ==
    IF ~left.some THEN Err("InvalidInt", after_atom_id + 1)
    ELSE IF left.idx >= Len(s) \/ At(s, left.idx) # CH_COMMA
         THEN Err("OutOfRange", after_atom_id)
    ELSE repeat_after_right(s, reg, after_atom_id, left, parse_number(s, left.idx + 1))

parse_repeat(s, reg, after_atom_id) ==
    repeat_after_left(s, reg, after_atom_id, parse_number(s, after_atom_id + 1))

postfix_after_atom(s, atom) ==
    IF ~atom.ok THEN atom
    ELSE IF atom.idx >= Len(s) THEN Ok(atom.reg, atom.idx)
    ELSE IF At(s, atom.idx) = CH_STAR THEN Ok(Kleen(atom.reg), atom.idx + 1)
    ELSE IF At(s, atom.idx) = CH_PLUS THEN Ok(OneOrMore(atom.reg), atom.idx + 1)
    ELSE IF At(s, atom.idx) = CH_LBRACE THEN parse_repeat(s, atom.reg, atom.idx)
    ELSE Ok(atom.reg, atom.idx)

parse_postfix(s, idx) == postfix_after_atom(s, parse_atom(s, idx))

and_after_right(left, right) ==
    IF ~right.ok THEN right ELSE Ok(And(left.reg, right.reg), right.idx)

and_after_left(s, left) ==
    IF ~left.ok THEN left
    ELSE IF left.idx >= Len(s) THEN Ok(left.reg, left.idx)
    ELSE IF At(s, left.idx) = CH_RPAREN THEN Ok(left.reg, left.idx + 1)
    ELSE IF At(s, left.idx) = CH_PIPE THEN Ok(left.reg, left.idx)
    ELSE and_after_right(left, parse_or(s, left.idx))

parse_and(s, idx) == and_after_left(s, parse_postfix(s, idx))

or_after_right(left, right) ==
    IF ~right.ok THEN right ELSE Ok(Or(left.reg, right.reg), right.idx)

or_after_left(s, left) ==
    IF ~left.ok THEN left
    ELSE IF left.idx < Len(s)
         THEN IF At(s, left.idx) = CH_PIPE
              THEN or_after_right(left, parse_or(s, left.idx + 1))
              ELSE IF At(s, left.idx) = CH_RPAREN THEN Ok(left.reg, left.idx + 1)
              ELSE Ok(left.reg, left.idx)
    ELSE Ok(left.reg, left.idx)

parse_or(s, idx) == or_after_left(s, parse_and(s, idx))

\* mutant of parse_regexp: the input is parsed first, and scanned for a
\* non-ASCII byte only when the parse succeeds
parse_regexp_scan_last(s) ==
    IF ~parse_or(s, 0).ok THEN parse_or(s, 0)
    ELSE IF first_non_ascii(s).some THEN Err("NonAsciiChar", first_non_ascii(s).index)
    ELSE parse_or(s, 0)

\* Re::parse_regexp: Ok(reg) drops the cursor parse_or returned (idx is kept
\* in the model's result only as the cursor that was dropped)
parse_regexp(s) ==
    LET bad == first_non_ascii(s) IN
    IF bad.some THEN Err("NonAsciiChar", bad.index)
    ELSE parse_or(s, 0)

(***************************************************************************)
(* Re::is_equal: one arm per variant of self, each matching other against  *)
(* the same variant.                                                       *)
(***************************************************************************)
RECURSIVE is_equal(_, _)

\* mutant of is_equal: the Repeat arm compares the minimum twice and never the maximum
is_equal_max_ignored(x, y) ==
    CASE x.tag = "Char" -> IF y.tag = "Char" THEN x.c = y.c ELSE FALSE
      [] x.tag = "Kleen" -> IF y.tag = "Kleen" THEN is_equal(x.c1, y.c1) ELSE FALSE
      [] x.tag = "Or" ->
            IF y.tag = "Or" THEN is_equal(x.c1, y.c1) /\ is_equal(x.c2, y.c2) ELSE FALSE
      [] x.tag = "And" ->
            IF y.tag = "And" THEN is_equal(x.c1, y.c1) /\ is_equal(x.c2, y.c2) ELSE FALSE
      [] x.tag = "OneOrMore" ->
            IF y.tag = "OneOrMore" THEN is_equal(x.c1, y.c1) ELSE FALSE
      [] x.tag = "AnyChar" -> y.tag = "AnyChar"
      [] x.tag = "Repeat" ->
            IF y.tag = "Repeat"
            THEN is_equal(x.c1, y.c1) /\ x.a = y.a /\ x.a = y.a
            ELSE FALSE

is_equal(x, y) ==
    CASE x.tag = "Char" -> IF y.tag = "Char" THEN x.c = y.c ELSE FALSE
      [] x.tag = "Kleen" -> IF y.tag = "Kleen" THEN is_equal(x.c1, y.c1) ELSE FALSE
      [] x.tag = "Or" ->
            IF y.tag = "Or" THEN is_equal(x.c1, y.c1) /\ is_equal(x.c2, y.c2) ELSE FALSE
      [] x.tag = "And" ->
            IF y.tag = "And" THEN is_equal(x.c1, y.c1) /\ is_equal(x.c2, y.c2) ELSE FALSE
      [] x.tag = "OneOrMore" ->
            IF y.tag = "OneOrMore" THEN is_equal(x.c1, y.c1) ELSE FALSE
      [] x.tag = "AnyChar" -> y.tag = "AnyChar"
      [] x.tag = "Repeat" ->
            IF y.tag = "Repeat"
            THEN is_equal(x.c1, y.c1) /\ x.a = y.a /\ x.b = y.b
            ELSE FALSE

(***************************************************************************)
(* Re::debug_print: the bytes the print! calls write, in order.  A usize   *)
(* is written in decimal, without leading zeros.                           *)
(***************************************************************************)
RECURSIVE display_usize(_)
display_usize(n) ==
    IF n < 10 THEN <<CH_0 + n>>
    ELSE Append(display_usize(n \div 10), CH_0 + (n % 10))

RECURSIVE debug_print(_)
debug_print(x) ==
    CASE x.tag = "Char" -> <<x.c>>
      [] x.tag = "Kleen" -> <<CH_LPAREN>> \o debug_print(x.c1) \o <<CH_RPAREN, CH_STAR>>
      [] x.tag = "Or" ->
            <<CH_LPAREN>> \o debug_print(x.c1) \o <<CH_PIPE>> \o debug_print(x.c2)
                \o <<CH_RPAREN>>
      [] x.tag = "And" ->
            <<CH_LPAREN>> \o debug_print(x.c1) \o <<>> \o debug_print(x.c2)
                \o <<CH_RPAREN>>
      [] x.tag = "OneOrMore" ->
            <<CH_LPAREN>> \o debug_print(x.c1) \o <<CH_RPAREN, CH_PLUS>>
      [] x.tag = "AnyChar" -> <<CH_DOT>>
      [] x.tag = "Repeat" ->
            <<CH_LPAREN>> \o debug_print(x.c1) \o <<CH_RPAREN, CH_LBRACE>>
                \o display_usize(x.a) \o <<CH_COMMA>> \o display_usize(x.b)
                \o <<CH_RBRACE>>

(***************************************************************************)
(* The calls a client makes.  A run starts from the arguments (string, or  *)
(* self and other) and makes one call; debug_print follows a successful    *)
(* parse_regexp as in main, and its text can be parsed again.              *)
(***************************************************************************)
\* how many times a run prints a tree and parses the text again
MaxPrints == 2

Strings(alphabet, n) == UNION {[1..k -> alphabet] : k \in 0..n}

NoResult == [ok |-> FALSE, kind |-> "none", at |-> 0]

Start(s) ==
    /\ string = s
    /\ index = 0
    /\ call = "none"
    /\ result = NoResult
    /\ stdout = <<>>
    /\ self = AnyChar
    /\ other = AnyChar
    /\ stack = <<>>
    /\ ret = NoResult
    /\ depth = 0

ParseRegexp ==
    /\ call = "none"
    /\ call' = "parse_regexp"
    /\ index' = 0
    /\ result' = parse_regexp(string)
    /\ UNCHANGED <<string, stdout, self, other, stack, ret, depth>>

DebugPrint ==
    /\ call = "parse_regexp"
    /\ result.ok
    /\ Len(stdout) < MaxPrints
    /\ call' = "debug_print"
    /\ stdout' = Append(stdout, debug_print(result.reg))
    /\ UNCHANGED <<string, index, result, self, other, stack, ret, depth>>

\* parse_regexp on the text debug_print wrote last
ParsePrinted ==
    /\ call = "debug_print"
    /\ call' = "parse_regexp"
    /\ string' = stdout[Len(stdout)]
    /\ index' = 0
    /\ result' = parse_regexp(string')
    /\ UNCHANGED <<stdout, self, other, stack, ret, depth>>

Called(name, i, value) ==
    /\ call = "none"
    /\ call' = name
    /\ index' = i
    /\ result' = value
    /\ UNCHANGED <<string, stdout, self, other, stack, ret, depth>>

Cursors == 0..(Len(string) + 1)

ParseAtom == \E i \in Cursors : Called("parse_atom", i, parse_atom(string, i))

ParsePostfix == \E i \in Cursors : Called("parse_postfix", i, parse_postfix(string, i))

ParseAnd == \E i \in Cursors : Called("parse_and", i, parse_and(string, i))

ParseOr == \E i \in Cursors : Called("parse_or", i, parse_or(string, i))

\* TLC's integers are 32 bits wide: parse_number is called at
\* the cursors where the run of digits has at most 9 digits, or does not fit
\* usize (and no number is made).
ParseNumber ==
    \E i \in Cursors :
        /\ \/ digits_end(string, i) - i < 10
           \/ ~fits_usize([k \in 1..(digits_end(string, i) - i) |->
                                At(string, i + k - 1) - CH_0])
        /\ Called("parse_number", i, parse_number(string, i))

FirstNonAscii == Called("first_non_ascii", 0, first_non_ascii(string))

IsEqual == Called("is_equal", 0, is_equal(self, other))

(***************************************************************************)
(* Inputs without parentheses and postfix operators: terms and '|'.        *)
(***************************************************************************)
MaxLenAlt == 5

CH_b == CH_a + 1

CH_c == CH_a + 2

AltBytes == {CH_a, CH_b, CH_c, CH_DOT, CH_PIPE}

InitAlt == \E s \in Strings(AltBytes, MaxLenAlt) : Start(s)

NextAlt == ParseRegexp

SpecAlt == InitAlt /\ [][NextAlt]_vars

TermTree(b) == IF b = CH_DOT THEN AnyChar ELSE Char(b)

\* the right-nested And of the terms of seg
RECURSIVE ConcatTree(_)
ConcatTree(seg) ==
    IF seg = <<>> THEN [tag |-> "Empty"]
    ELSE IF Len(seg) = 1 THEN TermTree(seg[1])
    ELSE And(TermTree(Head(seg)), ConcatTree(Tail(seg)))

\* the offset of the first '|' of s at or after i, Len(s) when there is none
RECURSIVE FirstPipe(_, _)
FirstPipe(s, i) ==
    IF i >= Len(s) \/ At(s, i) = CH_PIPE THEN i ELSE FirstPipe(s, i + 1)

\* alternation := concatenation ('|' alternation)?
RECURSIVE AltTree(_)
AltTree(s) ==
    LET p == FirstPipe(s, 0) IN
    IF p >= Len(s) THEN ConcatTree(s)
    ELSE Or(ConcatTree(SubSeq(s, 1, p)), AltTree(SubSeq(s, p + 2, Len(s))))

\* C1: on an input of terms and '|' that parse_regexp accepts, the tree is
\* the right-nested Or, split at the '|' bytes, of the right-nested And of
\* the terms between them: concatenation binds tighter than alternation.
C1_ConcatBindsTighter ==
    (call = "parse_regexp" /\ result.ok) => result.reg = AltTree(string)

(***************************************************************************)
(* Inputs with groups: terms, parentheses, '|' and '*'.                    *)
(***************************************************************************)
MaxLenGroup == 5

GroupBytes == {CH_a, CH_b, CH_LPAREN, CH_RPAREN, CH_PIPE, CH_STAR}

InitGroup == \E s \in Strings(GroupBytes, MaxLenGroup) : Start(s)

NextGroup == ParseAtom \/ ParseRegexp

SpecGroup == InitGroup /\ [][NextGroup]_vars

\* the number of '(' minus the number of ')' among the first n bytes of s
RECURSIVE Nesting(_, _)
Nesting(s, n) ==
    IF n = 0 THEN 0
    ELSE Nesting(s, n - 1)
            + (IF s[n] = CH_LPAREN THEN 1 ELSE IF s[n] = CH_RPAREN THEN -1 ELSE 0)

Balanced(s) == Nesting(s, Len(s)) = 0 /\ \A n \in 0..Len(s) : Nesting(s, n) >= 0

\* the offset of the ')' that closes the '(' at offset i of a balanced s
MatchingParen(s, i) ==
    CHOOSE j \in (i + 1)..(Len(s) - 1) :
        /\ Nesting(s, j + 1) = Nesting(s, i)
        /\ \A k \in (i + 1)..j : Nesting(s, k) > Nesting(s, i)

\* C2: on an input with balanced parentheses, parse_atom at a '(' returns the
\* cursor one past the ')' that matches it, and the tree of the bytes
\* strictly between the two.
C2_GroupConsumesOwnParen ==
    (/\ call = "parse_atom"
     /\ index < Len(string)
     /\ At(string, index) = CH_LPAREN
     /\ Balanced(string)
     /\ result.ok)
    => LET j == MatchingParen(string, index)
           inner == parse_regexp(SubSeq(string, index + 2, j))
       IN  /\ result.idx = j + 1
           /\ inner.ok
           /\ result.reg = inner.reg

(***************************************************************************)
(* Inputs with a bounded-repeat suffix: an atom, '{', and either up to     *)
(* MaxLenRepeat bytes among digits, ',', '}' and a term byte, or a tail    *)
(* with the twenty digits of usize::MAX + 1.                               *)
(***************************************************************************)
MaxLenRepeat == 4

CH_2 == CH_0 + 2

RepeatAtoms == {<<CH_a>>, <<CH_LPAREN, CH_a, CH_RPAREN>>}

RepeatBytes == {CH_0, CH_2, CH_COMMA, CH_RBRACE, CH_a}

\* "18446744073709551616", the least number that does not fit usize
OverflowRun ==
    [k \in 1..Len(USIZE_MAX_DIGITS) |->
        CH_0 + (IF k = Len(USIZE_MAX_DIGITS) THEN USIZE_MAX_DIGITS[k] + 1
                ELSE USIZE_MAX_DIGITS[k])]

OverflowTails ==
    { before \o OverflowRun \o after :
        before \in {<<>>, <<CH_0>>, <<CH_2, CH_COMMA>>},
        after \in {<<>>, <<CH_RBRACE>>, <<CH_a>>, <<CH_COMMA, CH_2>>,
                   <<CH_COMMA, CH_2, CH_RBRACE>>} }

InitRepeat ==
    \E atom \in RepeatAtoms :
        \E tail \in Strings(RepeatBytes, MaxLenRepeat) \cup OverflowTails :
            Start(atom \o <<CH_LBRACE>> \o tail)

NextRepeat == ParsePostfix \/ ParseNumber \/ ParseRegexp

SpecRepeat == InitRepeat /\ [][NextRepeat]_vars

IsDigit(b) == b \in CH_0..CH_9

\* the end of the maximal run of digits of s that starts at offset i <= Len(s)
RunEnd(s, i) ==
    CHOOSE e \in i..Len(s) :
        /\ \A k \in i..(e - 1) : IsDigit(At(s, k))
        /\ e = Len(s) \/ ~IsDigit(At(s, e))

\* the digits of s at the offsets i..(e - 1), as numbers 0..9
RunDigits(s, i, e) == [k \in 1..(e - i) |-> At(s, i + k - 1) - CH_0]

\* ds without its leading zeros: the numeral of its value (<<>> for zero)
Significant(ds) ==
    LET lead == CHOOSE n \in 0..Len(ds) :
                    /\ \A k \in 1..n : ds[k] = 0
                    /\ n = Len(ds) \/ ds[n + 1] # 0
    IN  SubSeq(ds, lead + 1, Len(ds))

\* the numeral of the number n
RECURSIVE Numeral(_)
Numeral(n) == IF n = 0 THEN <<>> ELSE Append(Numeral(n \div 10), n % 10)

\* the number with numeral ds is greater than the number with numeral es
NumeralGreater(ds, es) ==
    \/ Len(ds) > Len(es)
    \/ /\ Len(ds) = Len(es)
       /\ \E k \in 1..Len(ds) : ds[k] > es[k] /\ \A j \in 1..(k - 1) : ds[j] = es[j]

\* the value of the digits ds fits usize
FitsUsize(ds) == ~NumeralGreater(Significant(ds), USIZE_MAX_DIGITS)

\* parse_atom succeeds at cursor i and the byte after the atom is '{'
FindsBrace(s, i) ==
    /\ parse_atom(s, i).ok
    /\ parse_atom(s, i).idx < Len(s)
    /\ At(s, parse_atom(s, i).idx) = CH_LBRACE

\* what the five checks, made in the order of the claim on the suffix whose
\* '{' is at offset p, decide: the kind of the first check that fails, or
\* "Repeat".  With width, a run of digits that does not fit usize fails the
\* checks (1) and (3) as a missing run does.
RepeatVerdict(s, p, width) ==
    LET e1 == RunEnd(s, p + 1)
        e2 == RunEnd(s, e1 + 1)
        min == RunDigits(s, p + 1, e1)
        max == RunDigits(s, e1 + 1, e2)
    IN  IF e1 = p + 1 \/ (width /\ ~FitsUsize(min)) THEN "InvalidInt"
        ELSE IF e1 >= Len(s) \/ At(s, e1) # CH_COMMA THEN "OutOfRange"
        ELSE IF e2 = e1 + 1 \/ (width /\ ~FitsUsize(max)) THEN "InvalidInt"
        ELSE IF NumeralGreater(Significant(min), Significant(max)) THEN "InvalidRange"
        ELSE IF e2 >= Len(s) \/ At(s, e2) # CH_RBRACE THEN "InvalidChar"
        ELSE "Repeat"

\* res is Repeat(reg, min, max) with the cursor one past the '}' of the
\* suffix of s whose '{' is at offset p
IsRepeatOf(res, s, reg, p) ==
    LET e1 == RunEnd(s, p + 1)
        e2 == RunEnd(s, e1 + 1)
    IN  /\ res.ok
        /\ res.idx = e2 + 1
        /\ res.reg.tag = "Repeat"
        /\ res.reg.c1 = reg
        /\ Numeral(res.reg.a) = Significant(RunDigits(s, p + 1, e1))
        /\ Numeral(res.reg.b) = Significant(RunDigits(s, e1 + 1, e2))

Agrees(res, s, reg, p, verdict) ==
    IF verdict = "Repeat" THEN IsRepeatOf(res, s, reg, p)
    ELSE ~res.ok /\ res.kind = verdict

\* parse_postfix, and parse_regexp when the suffix follows the input's first
\* atom and a check fails, agree with the verdict of the five checks
ChecksInOrder(width) ==
    /\ (call = "parse_postfix" /\ FindsBrace(string, index))
        => Agrees(result, string, parse_atom(string, index).reg,
                  parse_atom(string, index).idx,
                  RepeatVerdict(string, parse_atom(string, index).idx, width))
    /\ (/\ call = "parse_regexp"
        /\ FindsBrace(string, 0)
        /\ RepeatVerdict(string, parse_atom(string, 0).idx, width) # "Repeat")
        => Agrees(result, string, AnyChar, parse_atom(string, 0).idx,
                  RepeatVerdict(string, parse_atom(string, 0).idx, width))

\* C7 as stated: when parse_postfix finds '{' after its atom, the first
\* failing check among (1) no digits for the minimum, (2) no ',', (3) no
\* digits for the maximum, (4) min > max, (5) no '}' decides the error kind
\* (InvalidInt, OutOfRange, InvalidInt, InvalidRange, InvalidChar), and with
\* no failing check the result is Repeat(atom, min, max) with the cursor one
\* past the '}'.
C7_RepeatChecksAsListed == ChecksInOrder(FALSE)

\* C7, amended: the same, where the checks (1) and (3) also fail, with
\* InvalidInt, on a run of digits whose value does not fit usize.
C7_RepeatChecksInOrder == ChecksInOrder(TRUE)

\* the last check is reached and fails: both numbers are there, in order, and no '}'
C7_Witness ==
    /\ call = "parse_postfix"
    /\ FindsBrace(string, index)
    /\ ~result.ok
    /\ result.kind = "InvalidChar"

\* C10: parse_number at a digit returns, when the value fits usize, the
\* decimal value of the maximal run of digits from the cursor and the offset
\* where the run ends; it returns None at the end of the input or at a byte
\* that is not a digit.
C10_NumberIsMaximalRun ==
    call = "parse_number" =>
        IF index < Len(string) /\ IsDigit(At(string, index))
        THEN FitsUsize(RunDigits(string, index, RunEnd(string, index)))
                => /\ result.some
                   /\ result.idx = RunEnd(string, index)
                   /\ Numeral(result.integer)
                        = Significant(RunDigits(string, index, RunEnd(string, index)))
        ELSE result = None

\* a run of two digits or more that a non-digit byte ends
C10_Witness ==
    /\ call = "parse_number"
    /\ result.some
    /\ result.idx >= index + 2
    /\ result.idx < Len(string)
    /\ result.integer >= 10

(***************************************************************************)
(* Inputs made of up to MaxChunksRange pieces among a term, '(', ')',      *)
(* '|' and the suffixes "{0,2}", "{2,0}" and "{18446744073709551616,2}".   *)
(***************************************************************************)
MaxChunksRange == 4

RECURSIVE ChunkStrings(_, _)
ChunkStrings(chunks, n) ==
    IF n = 0 THEN {<<>>}
    ELSE ChunkStrings(chunks, n - 1)
            \cup {p \o c : p \in ChunkStrings(chunks, n - 1), c \in chunks}

RangeChunks ==
    { <<CH_a>>, <<CH_LPAREN>>, <<CH_RPAREN>>, <<CH_PIPE>>,
      <<CH_LBRACE, CH_0, CH_COMMA, CH_2, CH_RBRACE>>,
      <<CH_LBRACE, CH_2, CH_COMMA, CH_0, CH_RBRACE>>,
      <<CH_LBRACE>> \o OverflowRun \o <<CH_COMMA, CH_2, CH_RBRACE>> }

InitRange == \E s \in ChunkStrings(RangeChunks, MaxChunksRange) : Start(s)

NextRange == ParsePostfix \/ ParseRegexp

SpecRange == InitRange /\ [][NextRange]_vars

\* every Repeat node of the tree t, at any depth, has min <= max
RECURSIVE RangesOrdered(_)
RangesOrdered(t) ==
    CASE t.tag \in {"Char", "AnyChar"} -> TRUE
      [] t.tag \in {"Or", "And"} -> RangesOrdered(t.c1) /\ RangesOrdered(t.c2)
      [] t.tag \in {"Kleen", "OneOrMore"} -> RangesOrdered(t.c1)
      [] t.tag = "Repeat" -> t.a <= t.b /\ RangesOrdered(t.c1)

RECURSIVE HasRepeat(_)
HasRepeat(t) ==
    CASE t.tag \in {"Char", "AnyChar"} -> FALSE
      [] t.tag \in {"Or", "And"} -> HasRepeat(t.c1) \/ HasRepeat(t.c2)
      [] t.tag \in {"Kleen", "OneOrMore"} -> HasRepeat(t.c1)
      [] t.tag = "Repeat" -> TRUE

\* the bytes of s from the '{' at offset p on read "{m,n" with m > n; with
\* width, m and n fit usize
ReversedRangeAt(s, p, width) ==
    LET e1 == RunEnd(s, p + 1)
        e2 == RunEnd(s, e1 + 1)
        m == RunDigits(s, p + 1, e1)
        n == RunDigits(s, e1 + 1, e2)
    IN  /\ e1 > p + 1
        /\ e1 < Len(s)
        /\ At(s, e1) = CH_COMMA
        /\ e2 > e1 + 1
        /\ NumeralGreater(Significant(m), Significant(n))
        /\ width => FitsUsize(m) /\ FitsUsize(n)

FindsReversedRange(s, i, width) ==
    FindsBrace(s, i) /\ ReversedRangeAt(s, parse_atom(s, i).idx, width)

\* every Repeat node of a returned tree has min <= max, and a suffix "{m,n"
\* with m > n after the atom parse_postfix parsed (for parse_regexp: after
\* the input's first atom) gives no tree but the error InvalidRange
RangeOrdered(width) ==
    /\ (call \in {"parse_regexp", "parse_postfix"} /\ result.ok)
        => RangesOrdered(result.reg)
    /\ (\/ call = "parse_postfix" /\ FindsReversedRange(string, index, width)
        \/ call = "parse_regexp" /\ FindsReversedRange(string, 0, width))
        => ~result.ok /\ result.kind = "InvalidRange"

MaxChunksAscii == 4

AsciiChunks ==
    { <<CH_a>>, <<CH_PIPE>>, <<CH_LPAREN>>, <<195, 167>>, <<226, 130, 172>> }

InitAscii == \E s \in ChunkStrings(AsciiChunks, MaxChunksAscii) : Start(s)

NextAscii == FirstNonAscii \/ ParseRegexp

SpecAscii == InitAscii /\ [][NextAscii]_vars

HasNonAscii(s) == \E k \in 0..(Len(s) - 1) : At(s, k) >= 128

\* the offset of the first byte >= 0x80 of s
FirstNonAsciiOffset(s) ==
    CHOOSE k \in 0..(Len(s) - 1) :
        At(s, k) >= 128 /\ \A j \in 0..(k - 1) : At(s, j) < 128

\* C4: parse_regexp fails with NonAsciiChar at the offset of the first byte
\* >= 0x80 whatever the other bytes are, and never with NonAsciiChar on an
\* all-ASCII input; first_non_ascii returns that offset, or None.
C4_NonAsciiRejectedFirst ==
    /\ call = "parse_regexp" =>
        IF HasNonAscii(string)
        THEN result = Err("NonAsciiChar", FirstNonAsciiOffset(string))
        ELSE result.ok \/ result.kind # "NonAsciiChar"
    /\ call = "first_non_ascii" =>
        IF HasNonAscii(string)
        THEN result = SomeIndex(FirstNonAsciiOffset(string))
        ELSE result = None

\* the non-ASCII byte comes after a byte that is a syntax error on its own
C4_Witness ==
    /\ call = "parse_regexp"
    /\ ~result.ok
    /\ result.kind = "NonAsciiChar"
    /\ result.at > 0
    /\ At(string, 0) = CH_PIPE

(***************************************************************************)
(* Inputs of up to MaxLenAtom bytes among the ends of the three ranges of  *)
(* parse_atom, the bytes next to them, and the bytes of the grammar.       *)
(***************************************************************************)
MaxLenAtom == 2

AtomBytes ==
    { CH_a, CH_a - 1, CH_z, CH_z + 1, CH_UPPER_A, CH_UPPER_A - 1, CH_UPPER_Z,
      CH_UPPER_Z + 1, CH_0, CH_0 - 1, CH_9, CH_9 + 1, CH_DOT, CH_LPAREN,
      CH_RPAREN, CH_PIPE, CH_STAR, CH_PLUS }

InitAtom == \E s \in Strings(AtomBytes, MaxLenAtom) : Start(s)

NextAtom == ParseAtom \/ ParseRegexp

SpecAtom == InitAtom /\ [][NextAtom]_vars

IsAlnum(b) ==
    \/ b \in CH_a..CH_z
    \/ b \in CH_UPPER_A..CH_UPPER_Z
    \/ b \in CH_0..CH_9

\* parse_atom classifies the byte at its cursor
AtomClassified ==
    call = "parse_atom" =>
        IF index >= Len(string) THEN result = Err("OutOfRange", index)
        ELSE IF IsAlnum(At(string, index))
             THEN result = Ok(Char(At(string, index)), index + 1)
        ELSE IF At(string, index) = CH_DOT THEN result = Ok(AnyChar, index + 1)
        ELSE IF At(string, index) # CH_LPAREN THEN result = Err("InvalidChar", index)
        ELSE TRUE

EmptyOutOfRange ==
    (call = "parse_regexp" /\ string = <<>>) => result = Err("OutOfRange", 0)

EndsOpen(s) == Len(s) >= 1 /\ s[Len(s)] \in {CH_PIPE, CH_LPAREN}

\* C8 as stated: parse_atom classifies one byte, the empty input fails with
\* OutOfRange at 0, and every input that ends in '|' or '(' fails with
\* OutOfRange at offset len.
C8_AtomClassifiesAnyOpenEnd ==
    /\ AtomClassified
    /\ EmptyOutOfRange
    /\ (call = "parse_regexp" /\ EndsOpen(string))
        => result = Err("OutOfRange", Len(string))

\* one or more alphanumeric or '.' bytes and a final '|', or zero or more of
\* them and a final '('
TermsThenOpen(s) ==
    /\ EndsOpen(s)
    /\ \A k \in 1..(Len(s) - 1) : IsAlnum(s[k]) \/ s[k] = CH_DOT
    /\ s[Len(s)] = CH_PIPE => Len(s) >= 2

\* C8, amended: parse_atom classifies one byte, the empty input fails with
\* OutOfRange at 0, and an input of alphanumeric or '.' bytes followed by a
\* final '(' (or, when there is at least one such byte, a final '|') fails
\* with OutOfRange at offset len.
C8_AtomClassifies ==
    /\ AtomClassified
    /\ EmptyOutOfRange
    /\ (call = "parse_regexp" /\ TermsThenOpen(string))
        => result = Err("OutOfRange", Len(string))

\* a term and a final '|': the atom after the '|' is looked for at offset len
C8_Witness ==
    /\ call = "parse_regexp"
    /\ Len(string) = 2
    /\ string[2] = CH_PIPE
    /\ result = Err("OutOfRange", 2)

(***************************************************************************)
(* Printing a parsed tree and parsing the text again.                      *)
(***************************************************************************)
MaxLenPrint == 6

PrintBytes == {CH_a, CH_b, CH_LPAREN, CH_RPAREN, CH_PIPE}

InitPrint == \E s \in Strings(PrintBytes, MaxLenPrint) : Start(s)

NextPrint == ParseRegexp \/ DebugPrint \/ ParsePrinted

SpecPrint == InitPrint /\ [][NextPrint]_vars

\* C5: the text s1 that debug_print writes for a tree parse_regexp returned
\* is accepted by parse_regexp, and debug_print writes s1 again for the tree
\* of s1.
C5_PrintStable ==
    /\ (call = "parse_regexp" /\ Len(stdout) >= 1) => result.ok
    /\ Len(stdout) >= 2 => stdout[2] = stdout[1]

(***************************************************************************)
(* Pairs of trees of up to MaxNodes nodes, built by hand as the tests do,  *)
(* and pairs of trees parsed twice from one input.                         *)
(***************************************************************************)
MaxNodes == 3

Leaves == {Char(CH_a), Char(CH_b), AnyChar}

\* the (min, max) of the Repeat nodes: pairs that differ in one of the two only
RepeatArgs == {<<1, 1>>, <<1, 2>>, <<2, 2>>}

RECURSIVE TreesOfSize(_)
TreesOfSize(n) ==
    IF n = 1 THEN Leaves
    ELSE {Kleen(c) : c \in TreesOfSize(n - 1)}
            \cup {OneOrMore(c) : c \in TreesOfSize(n - 1)}
            \cup {Repeat(c, ab[1], ab[2]) : c \in TreesOfSize(n - 1), ab \in RepeatArgs}
            \cup UNION {{Or(c1, c2) : c1 \in TreesOfSize(k), c2 \in TreesOfSize(n - 1 - k)}
                            : k \in 1..(n - 2)}
            \cup UNION {{And(c1, c2) : c1 \in TreesOfSize(k), c2 \in TreesOfSize(n - 1 - k)}
                            : k \in 1..(n - 2)}

Trees(n) == UNION {TreesOfSize(k) : k \in 1..n}

EqStrings ==
    { <<CH_a>>, <<CH_DOT, CH_STAR>>, <<CH_a, CH_PIPE, CH_b>>, <<CH_a, CH_b, CH_PLUS>>,
      <<CH_LPAREN, CH_a, CH_PIPE, CH_b, CH_RPAREN, CH_STAR, CH_a>>,
      <<CH_a, CH_LBRACE, CH_0, CH_COMMA, CH_2, CH_RBRACE>> }

StartEq(s, x, y) ==
    /\ string = s
    /\ index = 0
    /\ call = "none"
    /\ result = NoResult
    /\ stdout = <<>>
    /\ self = x
    /\ other = y
    /\ stack = <<>>
    /\ ret = NoResult
    /\ depth = 0

InitEq ==
    \/ \E x \in Trees(MaxNodes) : \E y \in Trees(MaxNodes) : StartEq(<<>>, x, y)
    \/ \E s \in EqStrings : StartEq(s, parse_regexp(s).reg, parse_regexp(s).reg)

NextEq == IsEqual

SpecEq == InitEq /\ [][NextEq]_vars

\* C6: is_equal is true exactly of two trees with the same variant and equal
\* payloads at every depth (the same value), so it is symmetric and
\* reflexive, and true of the two trees parsed from one input.
C6_EqualIsStructural ==
    call = "is_equal" =>
        /\ result = (self = other)
        /\ result = is_equal(other, self)
        /\ is_equal(self, self)
        /\ is_equal(other, other)
        /\ string # <<>> => result

\* two Repeat nodes that differ in their maximum only
C6_Witness ==
    /\ call = "is_equal"
    /\ self.tag = "Repeat"
    /\ other.tag = "Repeat"
    /\ self.c1 = other.c1
    /\ self.a = other.a
    /\ self.b # other.b
    /\ result = FALSE

(***************************************************************************)
(* The parser run one call and one return at a time.  A frame is a call of *)
(* parse_regexp, parse_or, parse_and, parse_postfix or parse_atom that has *)
(* not returned: its function, its cursor, the place it has reached (start,*)
(* or the call it waits for) and the left operand it holds.  The loops of  *)
(* first_non_ascii and parse_number call nothing and are single steps.     *)
(***************************************************************************)
MaxLenMachine == 4

MachineBytes == {CH_a, CH_LPAREN, CH_RPAREN, CH_PIPE, CH_STAR}

\* the frames the machine's stack holds: never reached by a run of the parser
StackLimit == 4 * MaxLenMachine + 8

Frame(fn, idx) == [fn |-> fn, idx |-> idx, pc |-> "start", left |-> NoResult]

CallOf(pc, left, fn, idx) ==
    [do |-> "call", pc |-> pc, left |-> left, fn |-> fn, idx |-> idx]

ReturnOf(val) == [do |-> "return", val |-> val]

\* what the frame f does next, r being what the call it waited for returned
regexp_step(s, f, r) ==
    IF f.pc = "start"
    THEN IF first_non_ascii(s).some
         THEN ReturnOf(Err("NonAsciiChar", first_non_ascii(s).index))
         ELSE CallOf("after_parse_or", NoResult, "parse_or", 0)
    ELSE ReturnOf(r)

or_step(s, f, r) ==
    IF f.pc = "start" THEN CallOf("after_parse_and", NoResult, "parse_and", f.idx)
    ELSE IF f.pc = "after_parse_and"
         THEN IF ~r.ok THEN ReturnOf(r)
              ELSE IF r.idx < Len(s)
                   THEN IF At(s, r.idx) = CH_PIPE
                        THEN CallOf("after_parse_or", r, "parse_or", r.idx + 1)
                        ELSE IF At(s, r.idx) = CH_RPAREN
                             THEN ReturnOf(Ok(r.reg, r.idx + 1))
                        ELSE ReturnOf(Ok(r.reg, r.idx))
              ELSE ReturnOf(Ok(r.reg, r.idx))
    ELSE ReturnOf(or_after_right(f.left, r))

and_step(s, f, r) ==
    IF f.pc = "start" THEN CallOf("after_parse_postfix", NoResult, "parse_postfix", f.idx)
    ELSE IF f.pc = "after_parse_postfix"
         THEN IF ~r.ok THEN ReturnOf(r)
              ELSE IF r.idx >= Len(s) THEN ReturnOf(Ok(r.reg, r.idx))
              ELSE IF At(s, r.idx) = CH_RPAREN THEN ReturnOf(Ok(r.reg, r.idx + 1))
              ELSE IF At(s, r.idx) = CH_PIPE THEN ReturnOf(Ok(r.reg, r.idx))
              ELSE CallOf("after_parse_or", r, "parse_or", r.idx)
    ELSE ReturnOf(and_after_right(f.left, r))

postfix_step(s, f, r) ==
    IF f.pc = "start" THEN CallOf("after_parse_atom", NoResult, "parse_atom", f.idx)
    ELSE ReturnOf(postfix_after_atom(s, r))

\* mutant of atom_step: the '(' is not consumed before parse_or is called
atom_step_paren_kept(s, f, r) ==
    IF f.pc = "start"
    THEN IF f.idx < Len(s) /\ At(s, f.idx) = CH_LPAREN
         THEN CallOf("after_parse_or", NoResult, "parse_or", f.idx)
         ELSE ReturnOf(parse_atom(s, f.idx))
    ELSE ReturnOf(r)

atom_step(s, f, r) ==
    IF f.pc = "start"
    THEN IF f.idx < Len(s) /\ At(s, f.idx) = CH_LPAREN
         THEN CallOf("after_parse_or", NoResult, "parse_or", f.idx + 1)
         ELSE ReturnOf(parse_atom(s, f.idx))
    ELSE ReturnOf(r)

Top == stack[Len(stack)]

\* the call or the return d that the innermost frame makes
Apply(d) ==
    IF d.do = "call"
    THEN /\ Len(stack) < StackLimit
         /\ stack' = Append([stack EXCEPT ![Len(stack)] =
                                [@ EXCEPT !.pc = d.pc, !.left = d.left]],
                            Frame(d.fn, d.idx))
         /\ depth' = IF Len(stack) + 1 > depth THEN Len(stack) + 1 ELSE depth
         /\ UNCHANGED <<ret, call, result>>
    ELSE /\ stack' = SubSeq(stack, 1, Len(stack) - 1)
         /\ ret' = d.val
         /\ call' = IF Len(stack) = 1 THEN "parse_regexp" ELSE call
         /\ result' = IF Len(stack) = 1 THEN d.val ELSE result
         /\ UNCHANGED depth

Running(fn) == call = "running" /\ stack # <<>> /\ Top.fn = fn

\* the client calls Re::parse_regexp(string)
Begin ==
    /\ call = "none"
    /\ call' = "running"
    /\ stack' = <<Frame("parse_regexp", 0)>>
    /\ depth' = 1
    /\ UNCHANGED <<string, index, result, stdout, self, other, ret>>

StepRegexp ==
    /\ Running("parse_regexp")
    /\ Apply(regexp_step(string, Top, ret))
    /\ UNCHANGED <<string, index, stdout, self, other>>

StepOr ==
    /\ Running("parse_or")
    /\ Apply(or_step(string, Top, ret))
    /\ UNCHANGED <<string, index, stdout, self, other>>

StepAnd ==
    /\ Running("parse_and")
    /\ Apply(and_step(string, Top, ret))
    /\ UNCHANGED <<string, index, stdout, self, other>>

StepPostfix ==
    /\ Running("parse_postfix")
    /\ Apply(postfix_step(string, Top, ret))
    /\ UNCHANGED <<string, index, stdout, self, other>>

StepAtom ==
    /\ Running("parse_atom")
    /\ Apply(atom_step(string, Top, ret))
    /\ UNCHANGED <<string, index, stdout, self, other>>

InitMachine == \E s \in Strings(MachineBytes, MaxLenMachine) : Start(s)

NextMachine == Begin \/ StepRegexp \/ StepOr \/ StepAnd \/ StepPostfix \/ StepAtom

\* a sequential program takes its next step as long as it has one
SpecMachine == InitMachine /\ [][NextMachine]_vars /\ WF_vars(NextMachine)

Parsers == {"parse_or", "parse_and", "parse_postfix", "parse_atom"}

\* the innermost frame, a call of one of the four parsers, returns Ok
ReturnsOk ==
    /\ stack # <<>>
    /\ Top.fn \in Parsers
    /\ Len(stack') < Len(stack)
    /\ ret'.ok

\* a call at cursor i that returns Ok returns a cursor j with i < j <= n
Progress == ReturnsOk => (Top.idx < ret'.idx /\ ret'.idx <= Len(string))

\* a call is made at a cursor >= its caller's, and > it once the caller has
\* an atom behind it (the '(' of parse_atom, the term of parse_and, the term
\* and the '|' of parse_or)
NestedCursors ==
    \A k \in 1..(Len(stack) - 1) :
        /\ stack[k + 1].idx >= stack[k].idx
        /\ (stack[k].fn \in Parsers /\ stack[k].pc = "after_parse_or")
            => stack[k + 1].idx > stack[k].idx

Returned == call = "parse_regexp" /\ stack = <<>>

ReturnsParseRegexp == Returned => result = parse_regexp(string)

\* C9 as stated: successful calls advance the cursor within the input,
\* nested calls never move it back, the call stack never holds more than
\* n + 5 frames (5 is its depth on the empty input), and parse_regexp
\* returns on every input.
C9_DepthLenPlusConstant ==
    /\ [][Progress]_vars
    /\ [](NestedCursors /\ ReturnsParseRegexp)
    /\ [](depth <= Len(string) + 5)
    /\ <>Returned

\* C9, amended: successful calls advance the cursor within the input, nested
\* calls never move it back, the call stack never holds more than 4n + 5
\* frames (every byte can open the four frames parse_or, parse_and,
\* parse_postfix, parse_atom), and parse_regexp returns, with the value of
\* the recursive functions, on every input.
C9_ProgressAndTermination ==
    /\ [][Progress]_vars
    /\ [](NestedCursors /\ ReturnsParseRegexp)
    /\ [](depth <= 4 * Len(string) + 5)
    /\ <>Returned

\* a run that returned a tree after nesting deeper than n + 5 frames
C9_Witness ==
    /\ Returned
    /\ result.ok
    /\ depth > Len(string) + 5

====
